---- MODULE Spec2Model ----
(***************************************************************************)
(* The agent lifecycle supervisor of background-agents: AgentManager       *)
(* (startAll, startAgent, stopAgent, restartAgent, getAgentStatus) over    *)
(* BaseAgent instances (start, stop, the health-check interval and         *)
(* performHealthCheck), with ConfigManager's lookups.                      *)
(*                                                                         *)
(* Node runs one callback to completion; an async function gives up the    *)
(* thread only where it awaits work that is not finished yet.  The hooks   *)
(* initialize, cleanup and checkHealth do I/O in the concrete agents, and   *)
(* restartAgent awaits a one second timer: each is a suspension point and  *)
(* each action below is the code between two of them.                      *)
(***************************************************************************)
EXTENDS Integers, Sequences, FiniteSets, TLC

\* ---- bounds of the model
MaxInst == 2        \* agent objects alive at once
MaxTasks == 2       \* supervisor calls in flight at once
MaxTicks == 2       \* health ticks of one agent suspended in checkHealth at once
MaxRetriesA == 2    \* maxRetries that the definition of agent "a" sets
MaxAge == 1         \* milliseconds that an age or an uptime counts up to
NSubscribers == 2   \* handlers subscribed to each event of the supervisor

\* ---- program constants
DefaultMaxRetries == 3
GraceDelay == 1000  \* restartAgent's wait between stop and start, in milliseconds

\* ---- the configuration (ConfigManager.config.agents)
\* Keys in insertion order: "a" and "c" are enabled and have a class, "b" is
\* disabled, "x" is enabled and has no class in getAgentClass's table.
ConfigOrder == <<"a", "b", "x", "c">>

ConfigAgents == {ConfigOrder[k] : k \in 1..Len(ConfigOrder)}

\* Properties that config.agents, a plain object, inherits from Object.prototype.
ProtoProps == {"constructor"}

\* A name that config.agents does not have at all.
AbsentNames == {"ghost"}

Names == ConfigAgents \cup ProtoProps \cup AbsentNames

ConfigEnabled(n) == n \in {"a", "x", "c"}

\* The definition's maxRetries; 0 stands for a definition that sets none.
ConfigMaxRetries(n) == IF n = "a" THEN MaxRetriesA ELSE 0

\* getAgentClass's table.  The class of "a" overrides checkHealth with a check
\* that does I/O and reports what it finds; the class of "c" adds fields to what
\* BaseAgent.checkHealth returns, which is healthy, without suspending.
AgentClasses == {"a", "b", "c"}

OverridesCheckHealth(n) == n = "a"

\* The classes of "a" and "c" arm a work-loop timer of their own in initialize,
\* as GitSyncAgent and MonitoringAgent do, and keep the handle in this.interval.
HasWorkLoop(n) == n \in {"a", "c"}

NullConfig == [found |-> FALSE, enabled |-> FALSE, maxRetries |-> 0]

\* this.config.agents[agentName] || null: a property read, so it also finds what
\* the object inherits; an inherited value is truthy and has no enabled field.
getAgentConfig(n) ==
  IF n \in ConfigAgents
    THEN [found |-> TRUE, enabled |-> ConfigEnabled(n), maxRetries |-> ConfigMaxRetries(n)]
    ELSE IF n \in ProtoProps
      THEN [found |-> TRUE, enabled |-> FALSE, maxRetries |-> 0]
      ELSE NullConfig

\* getEnabledAgents without its filter.
getEnabledAgentsUnfiltered == ConfigOrder

\* Object.values(this.config.agents).filter(agent => agent.enabled), as names.
getEnabledAgents == SelectSeq(ConfigOrder, LAMBDA n : ConfigEnabled(n))

Insts == 1..MaxInst
NoInst == 0
Tasks == 1..MaxTasks

HealthResults == {"healthy", "unhealthy", "throw"}

\* The handlers subscribed to one event of the supervisor, in the order of
\* their subscription.
Subscribers == 1..NSubscribers

VARIABLES
  activeAgents,   \* AgentManager.activeAgents: name -> agent object, NoInst if absent
  inst,           \* the agent objects
  task,           \* the supervisor calls in flight
  emitted,        \* the events the last step emitted, in order
  last            \* what the last step was

vars == <<activeAgents, inst, task, emitted, last>>

\* ---- agent objects
\* status, retryCount, maxRetries, interval (the health timer is armed) are
\* BaseAgent's fields.  chk and cln count this agent's health ticks suspended in
\* checkHealth and in the cleanup of the stop the tick called.  run, forced,
\* overlapped and pat record what happened to the object: the unhealthy results
\* since the last healthy one, the stops the health loop called, whether two
\* ticks were ever in flight together, and how far the results since the start
\* follow maxRetries-1 unhealthy, one healthy, maxRetries unhealthy with no stop
\* requested (-1: they do not).  work says that the work-loop timer the agent
\* armed in initialize is armed.
NoneRec ==
  [name |-> "", status |-> "none", retryCount |-> 0, maxRetries |-> 0,
   interval |-> FALSE, work |-> FALSE, chk |-> 0, cln |-> 0,
   run |-> 0, forced |-> 0, overlapped |-> FALSE, pat |-> -1]

\* new AgentClass(agentConfig, logger)
NewAgent(n) ==
  [name |-> n, status |-> "stopped", retryCount |-> 0,
   maxRetries |-> IF getAgentConfig(n).maxRetries # 0
                    THEN getAgentConfig(n).maxRetries ELSE DefaultMaxRetries,
   interval |-> FALSE, work |-> FALSE, chk |-> 0, cln |-> 0,
   run |-> 0, forced |-> 0, overlapped |-> FALSE, pat |-> -1]

\* A call of the supervisor in flight.  keys is stopAll's copy of the map's keys;
\* old is, for restartAgent, 0 when it stopped an instance and -1 when it found
\* none, and from the start of the new instance on how many milliseconds before
\* the new one the stopped one had started.
IdleTask == [op |-> "idle", name |-> "", pc |-> "idle", inst |-> NoInst,
             idx |-> 0, att |-> {}, okd |-> {}, bad |-> {}, keys |-> <<>>, old |-> -1]

\* An object the supervisor and the health loop cannot reach any more: not in
\* the map, not held by a call in flight, no health timer armed, no tick in
\* flight.  A work timer left armed still fires for such an object; its callback
\* touches nothing that the supervisor reads, and the model lets the object go.
Referenced(i, insts, acts, tasks) ==
  \/ \E n \in Names : acts[n] = i
  \/ \E t \in Tasks : tasks[t].inst = i
  \/ insts[i].interval
  \/ insts[i].chk > 0
  \/ insts[i].cln > 0

\* Unreachable objects are collected.
Collect(insts, acts, tasks) ==
  [i \in Insts |-> IF Referenced(i, insts, acts, tasks) THEN insts[i] ELSE NoneRec]

Min(S) == CHOOSE x \in S : \A y \in S : x <= y

\* An age d milliseconds later, counted up to MaxAge.
Elapsed(age, d) == Min({age + d, MaxAge})

Event(src, type, n, i, info) ==
  [src |-> src, type |-> type, name |-> n, inst |-> i, info |-> info]

\* EventEmitter.emit on the supervisor calls the handlers in the order of their
\* subscription and catches nothing: what each handler receives of the events
\* evs when the handler thr throws (0: none does).
ManagerEvents(evs) == SelectSeq(evs, LAMBDA e : e.src = "manager")

Deliver(evs, thr) ==
  [h \in Subscribers |-> IF thr = 0 \/ h <= thr THEN ManagerEvents(evs) ELSE <<>>]

NoStatuses == [m \in {} |-> [status |-> "stopped", uptime |-> 0]]

\* What a step was: the call, how it left (out), why (note), the handler that
\* threw in it (thr), what the handlers received (dlv), what a read returned
\* (res), for restartAgent how much older the stopped instance is (old), for a
\* stop that ended whether the agent still has a timer armed (armed), and for a
\* tick what its checkHealth did (health).
Label(op, n, i, out, note) ==
  [op |-> op, name |-> n, inst |-> i, out |-> out, note |-> note,
   att |-> {}, okd |-> {}, bad |-> {}, thr |-> 0, dlv |-> Deliver(<<>>, 0),
   res |-> NoStatuses, old |-> -1, armed |-> FALSE, health |-> ""]

\* AgentManager.getAgentStatus(agentName).status
getAgentStatus(n) ==
  IF activeAgents[n] = NoInst THEN "stopped" ELSE inst[activeAgents[n]].status

\* getAgentStatus answering "error" for a name that is not in the map.
getAgentStatusResultNoDefault(n, up) ==
  IF activeAgents[n] = NoInst
    THEN [status |-> "error", uptime |-> 0]
    ELSE [status |-> inst[activeAgents[n]].status, uptime |-> up]

\* AgentManager.getAgentStatus(agentName): status and uptime, where up is
\* Date.now() - agent.startTime.
getAgentStatusResult(n, up) ==
  IF activeAgents[n] = NoInst
    THEN [status |-> "stopped", uptime |-> 0]
    ELSE [status |-> inst[activeAgents[n]].status, uptime |-> up]

ActiveNames == {m \in Names : activeAgents[m] # NoInst}

\* AgentManager.getAllAgentStatuses(): one entry for each key of the map.
getAllAgentStatuses(ups) == [n \in ActiveNames |-> getAgentStatusResult(n, ups[n])]

\* ---- BaseAgent: the code fields of one agent object

\* start() up to its first suspension, inside initialize.
AgentStartBegin(a) == [a EXCEPT !.status = "starting"]

\* start() after initialize succeeded, without status = 'running'.
AgentStartOkStillStarting(a) ==
  [a EXCEPT !.interval = TRUE, !.work = HasWorkLoop(a.name)]

\* start() after initialize succeeded: initialize has armed the work timer of a
\* class that has one, and startMainLoop arms the health timer, whose handle
\* replaces the work timer's in this.interval.
AgentStartOk(a) ==
  [a EXCEPT !.interval = TRUE, !.status = "running", !.work = HasWorkLoop(a.name)]

\* start()'s catch, after initialize threw.
AgentStartFail(a) == [a EXCEPT !.status = "error"]

\* stop() up to its suspension inside cleanup: clearInterval(this.interval), the
\* health timer; cleanup then finds this.interval null and clears nothing.
AgentStopBegin(a) == [a EXCEPT !.status = "stopping", !.interval = FALSE]

\* stop() after cleanup returned.
AgentStopOk(a) == [a EXCEPT !.status = "stopped"]

\* stop()'s catch setting status = 'error'.
AgentStopFailError(a) == [a EXCEPT !.status = "error"]

\* stop()'s catch, after cleanup threw: it logs and rethrows.
AgentStopFail(a) == a

\* performHealthCheck counting a checkHealth that throws as an unhealthy result.
HealthDecisionThrowCounts(a, h) ==
  IF h = "healthy" THEN "reset"
  ELSE IF a.retryCount >= a.maxRetries THEN "stop"
  ELSE "retry"

\* performHealthCheck comparing retryCount > maxRetries.
HealthDecisionLate(a, h) ==
  IF h = "throw" THEN "caught"
  ELSE IF h = "healthy" THEN "reset"
  ELSE IF a.retryCount > a.maxRetries THEN "stop"
  ELSE "retry"

\* What performHealthCheck does with checkHealth's outcome h.
HealthDecision(a, h) ==
  IF h = "throw" THEN "caught"
  ELSE IF h = "healthy" THEN "reset"
  ELSE IF a.retryCount >= a.maxRetries THEN "stop"
  ELSE "retry"

\* performHealthCheck without retryCount = 0 on a healthy result.
ApplyHealthNoReset(a, d) ==
  CASE d = "retry" -> [a EXCEPT !.retryCount = @ + 1]
    [] d = "stop" -> AgentStopBegin(a)
    [] OTHER -> a

\* The agent's code fields after performHealthCheck decided d.
ApplyHealth(a, d) ==
  CASE d = "reset" -> [a EXCEPT !.retryCount = 0]
    [] d = "retry" -> [a EXCEPT !.retryCount = @ + 1]
    [] d = "stop" -> AgentStopBegin(a)
    [] OTHER -> a

\* performHealthCheck emitting healthCheck before it stops the agent too.
HealthEventsAlways(n, i, h, d) ==
  IF d \in {"reset", "retry", "stop"} THEN <<Event("agent", "healthCheck", n, i, h)>> ELSE <<>>

\* The events performHealthCheck emits for outcome h decided as d.
HealthEvents(n, i, h, d) ==
  IF d \in {"reset", "retry"} THEN <<Event("agent", "healthCheck", n, i, h)>> ELSE <<>>

\* ---- the record of what an object received (not read by the code)

\* The place in maxRetries-1 unhealthy, healthy, maxRetries unhealthy after one
\* more result h, for an object with maxRetries m at place p.
PatNext(p, m, h) ==
  IF p < 0 \/ h = "throw" THEN -1
  ELSE IF h = "healthy" THEN (IF p = m - 1 THEN m ELSE -1)
  ELSE IF p < m - 1 \/ (p >= m /\ p < 2 * m) THEN p + 1
  ELSE -1

ObserveResult(a, h, d) ==
  [a EXCEPT !.run = IF h = "healthy" THEN 0 ELSE IF h = "unhealthy" THEN @ + 1 ELSE @,
            !.pat = PatNext(@, a.maxRetries, h),
            !.forced = IF d = "stop" THEN @ + 1 ELSE @,
            !.chk = @ - 1,
            !.cln = IF d = "stop" THEN @ + 1 ELSE @]

\* ---- AgentManager

\* startAgent without its activeAgents.has(agentName) check.
StartOutcomeNoHas(acts, n) ==
  IF ~getAgentConfig(n).found THEN "notfound"
  ELSE IF ~getAgentConfig(n).enabled THEN "disabled"
  ELSE IF n \notin AgentClasses THEN "unknown"
  ELSE "construct"

\* startAgent up to the construction of the agent: which way it leaves.
StartOutcome(acts, n) ==
  IF ~getAgentConfig(n).found THEN "notfound"
  ELSE IF ~getAgentConfig(n).enabled THEN "disabled"
  ELSE IF acts[n] # NoInst THEN "already"
  ELSE IF n \notin AgentClasses THEN "unknown"
  ELSE "construct"

\* Call t, whose record becomes tk, enters startAgent(n).
CallStart(insts, acts, tasks, t, tk, n) ==
  LET o == StartOutcome(acts, n)
      free == {i \in Insts : ~Referenced(i, insts, acts, tasks)}
  IN IF o = "construct"
       THEN IF free = {}
              THEN [out |-> "blocked", note |-> o, inst |-> NoInst,
                    insts |-> insts, tasks |-> tasks]
              ELSE LET i == Min(free)
                   IN [out |-> "suspended", note |-> o, inst |-> i,
                       insts |-> [insts EXCEPT ![i] = AgentStartBegin(NewAgent(n))],
                       tasks |-> [tasks EXCEPT ![t] =
                                    [tk EXCEPT !.name = n, !.pc = "init", !.inst = i]]]
       ELSE [out |-> IF o \in {"notfound", "unknown"} THEN "threw" ELSE "returned",
             note |-> o, inst |-> NoInst,
             insts |-> insts, tasks |-> [tasks EXCEPT ![t] = IdleTask]]

\* startAll without its try/catch: the first start that throws ends the loop.
RECURSIVE StartAllLoopAbort(_, _, _, _, _, _)
StartAllLoopAbort(insts, acts, tasks, t, tk, k) ==
  IF k > Len(getEnabledAgents)
    THEN [out |-> "returned", note |-> "", inst |-> NoInst, insts |-> insts,
          tasks |-> [tasks EXCEPT ![t] = IdleTask],
          att |-> tk.att, okd |-> tk.okd, bad |-> tk.bad]
    ELSE LET n == getEnabledAgents[k]
             tk1 == [tk EXCEPT !.att = @ \cup {n}, !.idx = k]
             r == CallStart(insts, acts, tasks, t, tk1, n)
         IN IF r.out \in {"suspended", "blocked", "threw"}
              THEN [out |-> r.out, note |-> r.note, inst |-> r.inst, insts |-> r.insts,
                    tasks |-> r.tasks, att |-> tk1.att, okd |-> tk1.okd, bad |-> tk1.bad]
              ELSE StartAllLoopAbort(insts, acts, tasks, t, tk1, k + 1)

\* startAll's loop from the k-th enabled definition on: a start that throws is
\* caught and the loop goes on; it suspends in the first start that constructs.
\* att, okd and bad collect the names it called startAgent for, those whose
\* start it saw succeed and those whose start it caught.
RECURSIVE StartAllLoop(_, _, _, _, _, _)
StartAllLoop(insts, acts, tasks, t, tk, k) ==
  IF k > Len(getEnabledAgents)
    THEN [out |-> "returned", note |-> "", inst |-> NoInst, insts |-> insts,
          tasks |-> [tasks EXCEPT ![t] = IdleTask],
          att |-> tk.att, okd |-> tk.okd, bad |-> tk.bad]
    ELSE LET n == getEnabledAgents[k]
             tk1 == [tk EXCEPT !.att = @ \cup {n}, !.idx = k]
             r == CallStart(insts, acts, tasks, t, tk1, n)
         IN IF r.out \in {"suspended", "blocked"}
              THEN [out |-> r.out, note |-> r.note, inst |-> r.inst, insts |-> r.insts,
                    tasks |-> r.tasks, att |-> tk1.att, okd |-> tk1.okd, bad |-> tk1.bad]
              ELSE StartAllLoop(insts, acts, tasks, t,
                                [tk1 EXCEPT !.bad = IF r.out = "threw" THEN @ \cup {n} ELSE @],
                                k + 1)

\* activeAgents.set(agentName, agent)
Register(acts, n, i) == [acts EXCEPT ![n] = i]

\* activeAgents.clear() in place of the delete.
UnregisterAll(acts, n) == [m \in Names |-> NoInst]

\* activeAgents.delete(agentName)
Unregister(acts, n) == [acts EXCEPT ![n] = NoInst]

\* startAgent emitting agentStarted twice.
StartEventsTwice(n, i) ==
  <<Event("agent", "started", n, i, ""), Event("manager", "agentStarted", n, i, ""),
    Event("manager", "agentStarted", n, i, "")>>

\* The events of a start that succeeded: the agent's, then the manager's.
StartEvents(n, i) ==
  <<Event("agent", "started", n, i, ""), Event("manager", "agentStarted", n, i, "")>>

\* The events of a stopAgent that succeeded.
StopEvents(n, i) ==
  <<Event("agent", "stopped", n, i, ""), Event("manager", "agentStopped", n, i, "")>>

Commit(insts, acts, tasks, evs, lbl) ==
  /\ activeAgents' = acts
  /\ task' = tasks
  /\ inst' = Collect(insts, acts, tasks)
  /\ emitted' = evs
  /\ last' = [lbl EXCEPT !.dlv = Deliver(evs, lbl.thr)]

IdleTasks == {t \in Tasks : task[t].op = "idle"}

Quiet == IdleTasks = Tasks

\* A request takes the first free slot.
Accepts(t) == IdleTasks # {} /\ t = Min(IdleTasks)

Init ==
  /\ activeAgents = [n \in Names |-> NoInst]
  /\ inst = [i \in Insts |-> NoneRec]
  /\ task = [t \in Tasks |-> IdleTask]
  /\ emitted = <<>>
  /\ last = Label("init", "", NoInst, "returned", "")


\* ---- the supervisor's calls

Call(op) == [IdleTask EXCEPT !.op = op]

ReturnLabel(op, n, r) == Label(op, n, r.inst, r.out, r.note)

\* startAgent(n) is called (the dashboard's routes and messages, the scripts).
StartAgentCall(t, n) ==
  /\ Accepts(t)
  /\ LET r == CallStart(inst, activeAgents, task, t, Call("startAgent"), n)
     IN /\ r.out # "blocked"
        /\ Commit(r.insts, activeAgents, r.tasks, <<>>, ReturnLabel("startAgent", n, r))

\* Call t enters stopAgent(n): it returns at once when n is not in the map, and
\* else suspends in the cleanup of agent.stop(); `idle` is what the call becomes
\* when stopAgent returns at once.
CallStop(insts, acts, tasks, t, tk, idle, n) ==
  LET i == acts[n]
  IN IF i = NoInst
       THEN [out |-> "returned", note |-> "notrunning", inst |-> NoInst,
             insts |-> insts, tasks |-> [tasks EXCEPT ![t] = idle]]
       ELSE [out |-> "suspended", note |-> "stopping", inst |-> i,
             insts |-> [insts EXCEPT ![i] = [AgentStopBegin(@) EXCEPT !.pat = -1]],
             tasks |-> [tasks EXCEPT ![t] =
                          [tk EXCEPT !.name = n, !.pc = "cleanup", !.inst = i]]]

\* stopAgent(n) is called.
StopAgentCall(t, n) ==
  /\ Accepts(t)
  /\ LET r == CallStop(inst, activeAgents, task, t, Call("stopAgent"), IdleTask, n)
     IN Commit(r.insts, activeAgents, r.tasks, <<>>, ReturnLabel("stopAgent", n, r))

\* restartAgent(n) is called: stopAgent(n), then the grace delay.
RestartAgentCall(t, n) ==
  /\ Accepts(t)
  /\ LET call == [Call("restartAgent") EXCEPT
                    !.old = IF activeAgents[n] = NoInst THEN -1 ELSE 0]
         waiting == [call EXCEPT !.name = n, !.pc = "delay"]
         r == CallStop(inst, activeAgents, task, t, call, waiting, n)
     IN Commit(r.insts, activeAgents, r.tasks, <<>>,
               Label("restartAgent", n, r.inst, "suspended", r.note))

\* startAll() is called.
StartAllCall(t) ==
  /\ Accepts(t)
  /\ LET r == StartAllLoop(inst, activeAgents, task, t, Call("startAll"), 1)
     IN /\ r.out # "blocked"
        /\ Commit(r.insts, activeAgents, r.tasks, <<>>,
                  [Label("startAll", "", r.inst, r.out, r.note)
                     EXCEPT !.att = r.att, !.okd = r.okd, !.bad = r.bad])

\* stopAll without its try/catch: the first stop that throws ends the loop.
RECURSIVE StopAllLoopAbort(_, _, _, _, _, _)
StopAllLoopAbort(insts, acts, tasks, t, tk, k) ==
  IF k > Len(tk.keys) \/ tk.bad # {}
    THEN [out |-> IF tk.bad # {} THEN "threw" ELSE "returned", note |-> "", inst |-> NoInst,
          insts |-> insts, tasks |-> [tasks EXCEPT ![t] = IdleTask],
          att |-> tk.att, okd |-> tk.okd, bad |-> tk.bad]
    ELSE LET n == tk.keys[k]
             tk1 == [tk EXCEPT !.att = @ \cup {n}, !.idx = k]
             r == CallStop(insts, acts, tasks, t, tk1, IdleTask, n)
         IN IF r.out = "suspended"
              THEN [out |-> r.out, note |-> r.note, inst |-> r.inst, insts |-> r.insts,
                    tasks |-> r.tasks, att |-> tk1.att, okd |-> tk1.okd, bad |-> tk1.bad]
              ELSE StopAllLoopAbort(insts, acts, tasks, t, tk1, k + 1)

\* stopAll's loop from the k-th key of its copy on: it suspends in the first
\* stopAgent that finds its name in the map.  att, okd and bad collect the names
\* it called stopAgent for, those whose stop it saw succeed and those whose stop
\* it caught.
RECURSIVE StopAllLoop(_, _, _, _, _, _)
StopAllLoop(insts, acts, tasks, t, tk, k) ==
  IF k > Len(tk.keys)
    THEN [out |-> "returned", note |-> "", inst |-> NoInst, insts |-> insts,
          tasks |-> [tasks EXCEPT ![t] = IdleTask],
          att |-> tk.att, okd |-> tk.okd, bad |-> tk.bad]
    ELSE LET n == tk.keys[k]
             tk1 == [tk EXCEPT !.att = @ \cup {n}, !.idx = k]
             r == CallStop(insts, acts, tasks, t, tk1, IdleTask, n)
         IN IF r.out = "suspended"
              THEN [out |-> r.out, note |-> r.note, inst |-> r.inst, insts |-> r.insts,
                    tasks |-> r.tasks, att |-> tk1.att, okd |-> tk1.okd, bad |-> tk1.bad]
              ELSE StopAllLoop(insts, acts, tasks, t, tk1, k + 1)

\* Array.from(this.activeAgents.keys()): the keys in the order of their
\* insertion, which the model does not keep: any order of them.
KeyOrders(acts) ==
  LET S == {n \in Names : acts[n] # NoInst}
  IN {ks \in [1..Cardinality(S) -> S] : \A n \in S : \E k \in DOMAIN ks : ks[k] = n}

\* stopAll() is called.
StopAllCall(t) ==
  /\ Accepts(t)
  /\ \E ks \in KeyOrders(activeAgents) :
       LET r == StopAllLoop(inst, activeAgents, task, t,
                            [Call("stopAll") EXCEPT !.keys = ks], 1)
       IN Commit(r.insts, activeAgents, r.tasks, <<>>,
                 [Label("stopAll", "", r.inst, r.out, r.note)
                    EXCEPT !.att = r.att, !.okd = r.okd, !.bad = r.bad])

\* getAgentStatus(n) is called.
GetAgentStatusCall(n) ==
  \E up \in 0..MaxAge :
    /\ activeAgents[n] = NoInst => up = 0
    /\ Commit(inst, activeAgents, task, <<>>,
              [Label("getAgentStatus", n, activeAgents[n], "returned", "")
                 EXCEPT !.res = [m \in {n} |-> getAgentStatusResult(n, up)]])

\* getAllAgentStatuses() is called.
GetAllAgentStatusesCall ==
  \E ups \in [ActiveNames -> 0..MaxAge] :
    Commit(inst, activeAgents, task, <<>>,
           [Label("getAllAgentStatuses", "", NoInst, "returned", "")
              EXCEPT !.res = getAllAgentStatuses(ups)])

\* ---- the calls resume

\* initialize returns (ok) or throws in the agent.start() that call t awaits.
InitResume(t, ok, thr) ==
  /\ task[t].pc = "init"
  /\ ~ok => thr = 0
  /\ LET tk == task[t]
         i == tk.inst
         n == tk.name
         insts1 == [inst EXCEPT ![i] =
                      IF ok THEN [AgentStartOk(@) EXCEPT !.pat = 0] ELSE AgentStartFail(@)]
         acts1 == IF ok THEN Register(activeAgents, n, i) ELSE activeAgents
         evs == IF ok THEN StartEvents(n, i) ELSE <<Event("agent", "error", n, i, "")>>
         released == [task EXCEPT ![t] = IdleTask]
     IN IF tk.op = "startAll"
          THEN LET tk1 == [tk EXCEPT !.inst = NoInst, !.pc = "idle",
                                     !.okd = IF ok /\ thr = 0 THEN @ \cup {n} ELSE @,
                                     !.bad = IF ok /\ thr = 0 THEN @ ELSE @ \cup {n}]
                   r == StartAllLoop(Collect(insts1, acts1, released), acts1, released,
                                     t, tk1, tk.idx + 1)
               IN /\ r.out # "blocked"
                  /\ Commit(r.insts, acts1, r.tasks, evs,
                            [Label("startAll", n, i, r.out, IF ok THEN "started" ELSE "initfail")
                               EXCEPT !.att = r.att, !.okd = r.okd, !.bad = r.bad,
                                      !.thr = thr])
          ELSE Commit(insts1, acts1, released, evs,
                      [Label(tk.op, n, i, IF ok /\ thr = 0 THEN "returned" ELSE "threw",
                             IF ok THEN "started" ELSE "initfail")
                         EXCEPT !.thr = thr, !.old = tk.old])

\* cleanup returns (ok) or throws in the agent.stop() that call t awaits.
CleanupResume(t, ok, thr) ==
  /\ task[t].pc = "cleanup"
  /\ ~ok => thr = 0
  /\ LET tk == task[t]
         i == tk.inst
         n == tk.name
         insts1 == [inst EXCEPT ![i] = IF ok THEN AgentStopOk(@) ELSE AgentStopFail(@)]
         acts1 == IF ok THEN Unregister(activeAgents, n) ELSE activeAgents
         evs == IF ok THEN StopEvents(n, i) ELSE <<>>
         clean == ok /\ thr = 0
         after == IF clean /\ tk.op = "restartAgent"
                    THEN [tk EXCEPT !.pc = "delay", !.inst = NoInst]
                    ELSE IdleTask
         released == [task EXCEPT ![t] = IdleTask]
     IN IF tk.op = "stopAll"
          THEN LET tk1 == [tk EXCEPT !.inst = NoInst, !.pc = "idle",
                                     !.okd = IF clean THEN @ \cup {n} ELSE @,
                                     !.bad = IF clean THEN @ ELSE @ \cup {n}]
                   r == StopAllLoop(insts1, acts1, released, t, tk1, tk.idx + 1)
               IN Commit(r.insts, acts1, r.tasks, evs,
                         [Label("stopAll", n, i, r.out, IF ok THEN "stopped" ELSE "cleanupfail")
                            EXCEPT !.att = r.att, !.okd = r.okd, !.bad = r.bad, !.thr = thr,
                                   !.armed = insts1[i].interval \/ insts1[i].work])
          ELSE Commit(insts1, acts1, [task EXCEPT ![t] = after], evs,
                      [Label(tk.op, n, i,
                             IF ~clean THEN "threw"
                             ELSE IF tk.op = "restartAgent" THEN "suspended"
                             ELSE "returned",
                             IF ok THEN "stopped" ELSE "cleanupfail")
                         EXCEPT !.thr = thr, !.old = tk.old,
                                !.armed = insts1[i].interval \/ insts1[i].work])

\* restartAgent without its delay.
AfterGraceNoWait(age) == age

\* await new Promise(resolve => setTimeout(resolve, 1000)): an age after it.
AfterGrace(age) == Elapsed(age, GraceDelay)

\* restartAgent's grace delay expires: startAgent(n), whose start() takes the
\* new instance's startTime.  The stopped instance had started `age`
\* milliseconds before the delay began.
DelayResume(t, age) ==
  /\ task[t].pc = "delay"
  /\ task[t].old < 0 => age = 0
  /\ LET n == task[t].name
         tk == [task[t] EXCEPT !.old = IF @ < 0 THEN @ ELSE AfterGrace(age)]
         released == [task EXCEPT ![t] = IdleTask]
         r == CallStart(inst, activeAgents, released, t, tk, n)
     IN /\ r.out # "blocked"
        /\ Commit(r.insts, activeAgents, r.tasks, <<>>,
                  [ReturnLabel("restartAgent", n, r) EXCEPT !.old = tk.old])

\* ---- the health loop

\* The health timer of agent object i fires: performHealthCheck up to checkHealth.
\* At most `limit` ticks of one object are in flight.
TickFire(i, limit) ==
  /\ inst[i].interval
  /\ OverridesCheckHealth(inst[i].name)
  /\ inst[i].chk < limit
  /\ Commit([inst EXCEPT ![i] = [@ EXCEPT !.chk = @ + 1,
                                          !.overlapped = @ \/ inst[i].chk + inst[i].cln > 0]],
            activeAgents, task, <<>>,
            Label("tick", inst[i].name, i, "suspended", "fired"))

\* The health timer of an agent object i with BaseAgent's checkHealth fires: the
\* whole of performHealthCheck, on a healthy result.
TickDefault(i) ==
  /\ inst[i].interval
  /\ ~OverridesCheckHealth(inst[i].name)
  /\ LET a == inst[i]
         d == HealthDecision(a, "healthy")
     IN Commit([inst EXCEPT ![i] = ApplyHealth(a, d)],
               activeAgents, task, HealthEvents(a.name, i, "healthy", d),
               [Label("tick", a.name, i, "returned", d) EXCEPT !.health = "healthy"])

\* checkHealth of a tick of object i settles with h.
TickResult(i, h) ==
  /\ inst[i].chk > 0
  /\ LET a == inst[i]
         d == HealthDecision(a, h)
     IN Commit([inst EXCEPT ![i] = ObserveResult(ApplyHealth(a, d), h, d)],
               activeAgents, task, HealthEvents(a.name, i, h, d),
               [Label("tick", a.name, i, IF d = "stop" THEN "suspended" ELSE "returned", d)
                  EXCEPT !.health = h])

\* cleanup returns (ok) or throws in the stop() that a tick of object i awaits.
TickCleanup(i, ok) ==
  /\ inst[i].cln > 0
  /\ LET a == inst[i]
         a1 == IF ok THEN AgentStopOk(a) ELSE AgentStopFail(a)
     IN Commit([inst EXCEPT ![i] = [a1 EXCEPT !.cln = @ - 1]],
               activeAgents, task,
               IF ok THEN <<Event("agent", "stopped", a.name, i, "")>> ELSE <<>>,
               [Label("tick", a.name, i, "returned", IF ok THEN "stopped" ELSE "cleanupfail")
                  EXCEPT !.armed = a1.interval \/ a1.work])

\* ---- the work loop

\* The work-loop timer that agent object i armed in initialize fires.
WorkFire(i) ==
  /\ inst[i].work
  /\ Commit(inst, activeAgents, task, <<>>,
            Label("work", inst[i].name, i, "returned", inst[i].status))

\* ---- specifications

Requests(t, names) ==
  \/ \E n \in names : StartAgentCall(t, n)
  \/ \E n \in names : StopAgentCall(t, n)
  \/ \E n \in names : RestartAgentCall(t, n)
  \/ StartAllCall(t)

\* The calls resume; a handler that throws is one of `throwers`.
ResumesWith(throwers) ==
  \/ \E t \in Tasks, ok \in BOOLEAN, thr \in {0} \cup throwers : InitResume(t, ok, thr)
  \/ \E t \in Tasks, ok \in BOOLEAN, thr \in {0} \cup throwers : CleanupResume(t, ok, thr)
  \/ \E t \in Tasks, age \in 0..MaxAge : DelayResume(t, age)

\* The handlers that the dashboard subscribes catch what they throw.
Resumes == ResumesWith({})

Reads ==
  \/ \E n \in Names : GetAgentStatusCall(n)
  \/ GetAllAgentStatusesCall

Work == \E i \in Insts : WorkFire(i)

Ticks(limit) ==
  \/ \E i \in Insts : TickFire(i, limit)
  \/ \E i \in Insts : TickDefault(i)
  \/ \E i \in Insts, h \in HealthResults : TickResult(i, h)
  \/ \E i \in Insts, ok \in BOOLEAN : TickCleanup(i, ok)

\* The names startAgent can construct an agent for.  A request for any other
\* name returns or throws before it touches the state.
Startable == {n \in Names : StartOutcome([m \in Names |-> NoInst], n) = "construct"}

\* The dashboard: requests arrive while earlier ones are suspended.  Each health
\* check ends within its interval.
Next == (\E t \in Tasks : Requests(t, Startable)) \/ Resumes \/ Ticks(1)

Spec == Init /\ [][Next]_vars

\* One caller that awaits each call before it makes the next, for any name.
\* Health checks may take longer than the interval.
NextSeq ==
  \/ Quiet /\ \E t \in Tasks : Requests(t, Names) \/ StopAllCall(t)
  \/ Resumes
  \/ Ticks(MaxTicks)

SpecSeq == Init /\ [][NextSeq]_vars

\* An application that embeds the supervisor: it subscribes handlers of its own,
\* which may throw, awaits each call before it makes the next, reads the
\* statuses at any time, and runs while the agents' work loops fire.  Each
\* health check ends within its interval.
NextApp ==
  \/ Quiet /\ \E t \in Tasks : Requests(t, Names) \/ StopAllCall(t)
  \/ ResumesWith(Subscribers)
  \/ Ticks(1)
  \/ Reads
  \/ Work

SpecApp == Init /\ [][NextApp]_vars

\* The supervisor left to itself: an operator may make requests for "a", one at
\* a time, and need not; a pending initialize, cleanup or delay ends and an
\* armed health timer fires, as Node's event loop runs what is ready.
NextAuto ==
  \/ Quiet /\ \E t \in Tasks : Requests(t, {"a"})
  \/ Resumes
  \/ Ticks(1)

SpecAuto == Init /\ [][NextAuto]_vars /\ WF_vars(Resumes) /\ WF_vars(Ticks(1))


\* ---- the claims

HealthChecks == SelectSeq(emitted, LAMBDA e : e.type = "healthCheck")

Live == {i \in Insts : inst[i].status # "none"}

\* C1: startAgent(n) for an enabled n that is already in the active set returns
\* without raising and changes nothing: the map keeps the instance of the first
\* call, no agent is constructed or started, no event is emitted.
C1_SecondStartIsNoOp ==
  [][\A n \in Names :
       (Quiet /\ last'.op = "startAgent" /\ last'.name = n /\ last' # last
          /\ getAgentConfig(n).enabled /\ activeAgents[n] # NoInst)
       => /\ last'.out = "returned"
          /\ activeAgents' = activeAgents
          /\ inst' = inst
          /\ task' = task
          /\ emitted' = <<>>]_vars

C1_Witness ==
  /\ last.op = "startAgent" /\ last.out = "returned" /\ last.note = "already"
  /\ activeAgents[last.name] # NoInst
  /\ inst[activeAgents[last.name]].status = "running"
  /\ Cardinality({i \in Live : inst[i].name = last.name}) = 1

\* C2: when stopAgent(n) has completed, by returning or by rethrowing what
\* cleanup threw, n is not in the active set and getAgentStatus(n) is "stopped".
C2_StopAlwaysUnregisters ==
  (last.op = "stopAgent" /\ last.out \in {"returned", "threw"})
    => activeAgents[last.name] = NoInst /\ getAgentStatus(last.name) = "stopped"

C4_HealthyResets ==
  \A i \in Live :
    inst[i].pat = 2 * inst[i].maxRetries =>
      /\ inst[i].status = "running"
      /\ inst[i].interval
      /\ inst[i].forced = 0
      /\ inst[i].retryCount = inst[i].maxRetries

C4_Witness ==
  \E i \in Live :
    /\ inst[i].pat = 2 * inst[i].maxRetries
    /\ inst[i].status = "running"
    /\ inst[i].run = inst[i].maxRetries
    /\ last.op = "tick" /\ last.inst = i /\ last.note = "retry"

\* C5: startAgent(n) for a name n that has no definition in the configuration
\* raises the not-found error.
C5_UndefinedNameThrows ==
  (last.op = "startAgent" /\ last.name \notin ConfigAgents)
    => last.out = "threw" /\ last.note = "notfound"

\* C6: for each name at most one agent object is active (started, not stopped,
\* its health timer armed).
C6_AtMostOneActive ==
  \A n \in Names : Cardinality({i \in Live : inst[i].name = n /\ inst[i].interval}) <= 1

\* C7: a step of startAgent, stopAgent, restartAgent or of a health tick of
\* agent n leaves every other name's map entry, and the status and retryCount of
\* every other name's agent objects, as they were.
C7_OtherAgentsUntouched ==
  [][\A m \in Names :
       (last'.op \in {"startAgent", "stopAgent", "restartAgent", "tick"}
          /\ last'.name # m)
       => /\ activeAgents'[m] = activeAgents[m]
          /\ \A i \in Insts :
               inst[i].name = m =>
                 /\ inst'[i].name = m
                 /\ inst'[i].status = inst[i].status
                 /\ inst'[i].retryCount = inst[i].retryCount]_vars

C7_Witness ==
  /\ last.op = "stopAgent" /\ last.name = "a" /\ last.out = "returned"
  /\ last.note = "stopped"
  /\ activeAgents["c"] # NoInst
  /\ inst[activeAgents["c"]].status = "running"

\* C8: when startAll() returns it has called startAgent for the enabled
\* definitions and for no other, no disabled definition is in the active set,
\* every agent whose start it saw succeed is, and it has raised nothing.
C8_StartAllEnabledOnly ==
  last.op = "startAll" =>
    /\ last.out # "threw"
    /\ last.out = "returned" =>
         \A n \in ConfigAgents :
           /\ n \in last.att <=> ConfigEnabled(n)
           /\ ~ConfigEnabled(n) => activeAgents[n] = NoInst
           /\ n \in last.okd => activeAgents[n] # NoInst

C8_Witness ==
  /\ last.op = "startAll" /\ last.out = "returned"
  /\ "a" \in last.okd /\ activeAgents["a"] # NoInst
  /\ inst[activeAgents["a"]].status = "running"
  /\ activeAgents["b"] = NoInst

\* C9: startAll() never raises, and when it returns it has called startAgent for
\* every enabled definition, those after a failed start included; every agent
\* whose start succeeded is in the active set and none whose start failed is
\* there on account of this call.
C9_StartAllNeverAborts ==
  last.op = "startAll" =>
    /\ last.out # "threw"
    /\ last.out = "returned" =>
         /\ \A k \in 1..Len(getEnabledAgents) : getEnabledAgents[k] \in last.att
         /\ last.okd \cap last.bad = {}
         /\ \A n \in last.okd :
              activeAgents[n] # NoInst /\ inst[activeAgents[n]].status # "starting"

C9_Witness ==
  /\ last.op = "startAll" /\ last.out = "returned"
  /\ {"a", "x"} \subseteq last.bad
  /\ "c" \in last.okd
  /\ activeAgents["c"] # NoInst /\ activeAgents["a"] = NoInst

OfType(evs, type) == SelectSeq(evs, LAMBDA e : e.type = type)

Range(f) == {f[k] : k \in DOMAIN f}

StopAllTasks == {t \in Tasks : task[t].op = "stopAll"}

\* C11: at every health tick of an agent in the active set that got a result
\* within the budget, each handler subscribed to the supervisor for healthCheck
\* receives one healthCheck event.
C11_HealthCheckDelivered ==
  (last.op = "tick" /\ last.note \in {"reset", "retry"}
     /\ activeAgents[last.name] = last.inst)
    => \A h \in Subscribers : Len(OfType(last.dlv[h], "healthCheck")) = 1

C13_StopAllStopsEach ==
  [][last'.op = "stopAll" =>
       /\ last'.out # "threw"
       /\ \A t \in Tasks :
            /\ (task'[t].op = "stopAll" /\ task[t].op # "stopAll")
                 => Range(task'[t].keys) = ActiveNames
            /\ (task'[t].op = "stopAll" /\ task[t].op = "stopAll")
                 => /\ task'[t].keys = task[t].keys
                    /\ task'[t].idx > task[t].idx
                    /\ task'[t].idx <= Len(task[t].keys)
            /\ (task[t].op = "stopAll" /\ last'.out = "returned")
                 => /\ last'.att = Range(task[t].keys)
                    /\ last'.okd \cup last'.bad = last'.att
                    /\ last'.okd \cap last'.bad = {}
                    /\ \A n \in last'.okd : activeAgents'[n] = NoInst
                    /\ last'.bad = {} => \A n \in Names : activeAgents'[n] = NoInst
       /\ (StopAllTasks = {} /\ last'.out = "returned")
            => ActiveNames = {} /\ last'.att = {}]_vars

C13_Witness ==
  /\ last.op = "stopAll" /\ last.out = "returned"
  /\ last.bad # {} /\ last.okd # {}
  /\ last.name \in last.okd
  /\ activeAgents[last.name] = NoInst

\* C14: whenever an agent has been stopped by the health loop, an agent of its
\* name is eventually running again.
C14_ForcedStopRestarts ==
  (\E i \in Live : inst[i].name = "a" /\ inst[i].forced > 0 /\ inst[i].status = "stopped")
    ~> (\E i \in Live : inst[i].name = "a" /\ inst[i].status = "running")

\* C15: restartAgent(n) begins its delay only when the stop of the old instance
\* has ended and n has left the map (or when it found no instance), and starts
\* the new instance only after the delay; when it returns having stopped one
\* instance and started another, n is in the map with the new instance, which is
\* running and whose startTime is greater than the old one's.
C15_RestartOrderAndStartTime ==
  [][/\ \A t \in Tasks :
          task'[t].op = "restartAgent" =>
            /\ (task'[t].pc = "delay" /\ task[t].pc # "delay")
                 => \/ /\ task[t].pc = "cleanup"
                       /\ last'.note = "stopped"
                       /\ last'.inst = task[t].inst
                       /\ activeAgents'[task'[t].name] = NoInst
                    \/ /\ task[t].pc = "idle"
                       /\ activeAgents[task'[t].name] = NoInst
            /\ (task'[t].pc = "init" /\ task[t].pc # "init")
                 => task[t].pc = "delay" /\ inst'[task'[t].inst].status = "starting"
     /\ (last'.op = "restartAgent" /\ last'.out = "returned" /\ last'.note = "started"
           /\ last'.old >= 0)
          => /\ last'.old > 0
             /\ activeAgents'[last'.name] = last'.inst
             /\ inst'[last'.inst].status = "running"]_vars

C15_Witness ==
  /\ last.op = "restartAgent" /\ last.out = "returned" /\ last.note = "started"
  /\ last.old > 0
  /\ activeAgents[last.name] = last.inst
  /\ inst[last.inst].status = "running"

\* C16: when a handler subscribed to agentStarted or agentStopped throws, the
\* startAgent or stopAgent that emitted the event does not raise, and every
\* subscribed handler, those after the throwing one included, receives it.
C16_HandlerThrowContained ==
  (last.op \in {"startAgent", "stopAgent"} /\ last.thr # 0)
    => /\ last.out = "returned"
       /\ \A h \in Subscribers : last.dlv[h] = ManagerEvents(emitted)

\* C17: when initialize throws in startAgent(n), n is in the active set with an
\* instance of status error, and getAgentStatus(n) reports error.
C17_FailedStartKept ==
  (last.op = "startAgent" /\ last.note = "initfail")
    => /\ activeAgents[last.name] # NoInst
       /\ getAgentStatus(last.name) = "error"

\* C18: when a stop has ended, the agent has no timer armed, and the work loop
\* of an agent that is stopping or stopped never fires.
C18_StopCancelsAllTimers ==
  /\ last.note = "stopped" => ~last.armed
  /\ last.op = "work" => last.note \notin {"stopping", "stopped"}

\* C19: getAgentStatus(n) and getAllAgentStatuses() return without raising and
\* leave the active set, the agents, the calls in flight as they are and emit
\* nothing; getAgentStatus(n) returns status stopped, uptime 0 for every name
\* that is not in the active set, and the instance's status otherwise, and
\* getAllAgentStatuses() returns that for each name in the active set.
C19_StatusReadsArePure ==
  [][last'.op \in {"getAgentStatus", "getAllAgentStatuses"} =>
       /\ last'.out = "returned"
       /\ activeAgents' = activeAgents
       /\ inst' = inst
       /\ task' = task
       /\ emitted' = <<>>
       /\ last'.op = "getAgentStatus" =>
            /\ DOMAIN last'.res = {last'.name}
            /\ IF activeAgents[last'.name] = NoInst
                 THEN last'.res[last'.name] = [status |-> "stopped", uptime |-> 0]
                 ELSE last'.res[last'.name].status = inst[activeAgents[last'.name]].status
       /\ last'.op = "getAllAgentStatuses" =>
            /\ DOMAIN last'.res = ActiveNames
            /\ \A n \in ActiveNames :
                 last'.res[n].status = inst[activeAgents[n]].status]_vars

C19_Witness ==
  /\ last.op = "getAgentStatus" /\ last.name = "ghost"
  /\ last.res["ghost"] = [status |-> "stopped", uptime |-> 0]
  /\ \E n \in Names : activeAgents[n] # NoInst /\ inst[activeAgents[n]].status = "running"

\* C20: the retryCount of every agent object is at least 0 and at most its
\* maxRetries.
C20_RetryCountInRange ==
  \A i \in Live : 0 <= inst[i].retryCount /\ inst[i].retryCount <= inst[i].maxRetries

C20_Witness ==
  \E i \in Live :
    /\ inst[i].retryCount = inst[i].maxRetries
    /\ inst[i].overlapped
    /\ inst[i].chk > 0
    /\ inst[i].status = "running"

\* C21: every change of an agent object's status is an edge of stopped ->
\* starting -> running -> stopping -> stopped, with error entered from starting
\* or running and left to stopping.  (A slot of the model is "none" before the
\* constructor, which sets stopped, and start() in the same step, and again
\* once nothing refers to the object.)
C21_StatusFollowsStateMachine ==
  [][\A i \in Insts :
       \/ inst'[i].status = inst[i].status
       \/ inst'[i].status = "none"
       \/ <<inst[i].status, inst'[i].status>> \in
            {<<"none", "starting">>, <<"stopped", "starting">>,
             <<"starting", "running">>, <<"running", "stopping">>,
             <<"stopping", "stopped">>, <<"starting", "error">>,
             <<"running", "error">>, <<"error", "stopping">>}]_vars

\* C22: an agent object that the health loop has stopped is not in the active
\* set, and startAgent never answers "already running" on account of one.
C22_ForcedStopUnregisters ==
  /\ \A i \in Live :
       (inst[i].forced > 0 /\ inst[i].status = "stopped")
         => \A n \in Names : activeAgents[n] # i
  /\ (last.op = "startAgent" /\ last.note = "already")
       => inst[activeAgents[last.name]].forced = 0

\* C23: the tick that finds the retry budget used up sets the agent's status to
\* error, before the status becomes stopped.
C23_ExhaustionPassesThroughError ==
  (last.op = "tick" /\ last.note = "stop") => inst[last.inst].status = "error"

C25_NoStartingEntryVisible ==
  /\ \A n \in Names :
       activeAgents[n] # NoInst => inst[activeAgents[n]].status \notin {"starting", "none"}
  /\ (last.op = "getAgentStatus"
        /\ \E t \in Tasks : task[t].pc = "init" /\ task[t].name = last.name)
       => last.res[last.name] = [status |-> "stopped", uptime |-> 0]

C25_Witness ==
  /\ last.op = "getAgentStatus"
  /\ \E t \in Tasks :
       /\ task[t].pc = "init" /\ task[t].name = last.name
       /\ inst[task[t].inst].status = "starting"
  /\ last.res[last.name] = [status |-> "stopped", uptime |-> 0]

\* C26: when initialize throws in startAgent(n), or cleanup throws in
\* stopAgent(n), every handler subscribed to the supervisor receives an error
\* event that names n.
C26_HookFailureReachesSupervisor ==
  (last.op \in {"startAgent", "stopAgent"} /\ last.note \in {"initfail", "cleanupfail"})
    => \A h \in Subscribers :
         \E k \in DOMAIN last.dlv[h] :
           last.dlv[h][k].type = "error" /\ last.dlv[h][k].name = last.name

\* C27: a tick that gets its checkHealth result when the agent's status is
\* stopped does not call stop(), leaves status and retryCount as they are and
\* emits no healthCheck event.  (An object that nothing refers to after the step
\* has left the model.)
C27_ResumedTickAfterStopIsInert ==
  [][\A i \in Insts :
       (inst[i].status = "stopped" /\ inst[i].chk > 0
          /\ last'.op = "tick" /\ last'.inst = i
          /\ last'.note \in {"caught", "reset", "stop", "retry"})
       => /\ last'.note # "stop"
          /\ emitted' = <<>>
          /\ \/ inst'[i] = NoneRec
             \/ /\ inst'[i].status = "stopped"
                /\ inst'[i].retryCount = inst[i].retryCount]_vars

\* C28: the health loop calls stop() at most once on an agent object, overlapping
\* ticks included, and retryCount never exceeds maxRetries.
C28_ForcedStopOnceWithOverlap ==
  \A i \in Live : inst[i].forced <= 1 /\ inst[i].retryCount <= inst[i].maxRetries

\* C29: the supervisor emits agentStarted for a name only when the name has no
\* entry in the active set, and agentStopped only when it has one, so that the
\* two alternate from agentStarted on (the entry is set where agentStarted is
\* emitted and deleted where agentStopped is); and stop(), hence cleanup, is
\* called only on an agent object that is running.
C29_StartedStoppedAlternate ==
  [][/\ \A k \in DOMAIN emitted' :
          emitted'[k].src = "manager" =>
            /\ emitted'[k].type = "agentStarted" => activeAgents[emitted'[k].name] = NoInst
            /\ emitted'[k].type = "agentStopped" => activeAgents[emitted'[k].name] # NoInst
     /\ (last'.note \in {"stopping", "stop"} /\ last'.inst # NoInst)
          => inst[last'.inst].status = "running"]_vars

\* C30: a tick whose checkHealth throws returns without raising, emits nothing
\* and leaves the agent's status, retryCount and health timer as they are, and
\* the health loop does not call stop() in it.  (An object that nothing refers
\* to after the step has left the model.)
C30_ThrowingCheckIsSwallowed ==
  [][\A i \in Insts :
       (last'.op = "tick" /\ last'.inst = i /\ last'.health = "throw")
       => /\ last'.out = "returned"
          /\ last'.note = "caught"
          /\ emitted' = <<>>
          /\ activeAgents' = activeAgents
          /\ \/ inst'[i] = NoneRec /\ \A n \in Names : activeAgents[n] # i
             \/ /\ inst'[i].status = inst[i].status
                /\ inst'[i].retryCount = inst[i].retryCount
                /\ inst'[i].interval = inst[i].interval
                /\ inst'[i].forced = inst[i].forced
                /\ inst'[i].cln = inst[i].cln]_vars

C30_Witness ==
  /\ last.op = "tick" /\ last.health = "throw" /\ last.note = "caught"
  /\ inst[last.inst].status = "running"
  /\ inst[last.inst].interval
  /\ inst[last.inst].retryCount = inst[last.inst].maxRetries
  /\ inst[last.inst].forced = 0
  /\ activeAgents[last.name] = last.inst

====
